---- MODULE Spec2Model ----
(***************************************************************************)
(* Model of the Hardware-in-the-Loop sensor simulator (src/main.py).       *)
(*                                                                         *)
(* The control handlers are `async def` functions without any await: the   *)
(* server runs them one at a time on its single event-loop thread, so each *)
(* handler is one atomic action with respect to the other handlers.  The   *)
(* only handler that takes time is stop_simulation, whose                  *)
(* simulation_thread.join(timeout=5.0) blocks the event loop; it is        *)
(* modelled in two steps (signal, join outcome) and `joining` keeps every  *)
(* other handler from running in between.  Worker threads run concurrently *)
(* with the event loop and with each other; every read or write of a       *)
(* module-level global by a worker is a step of its own.                   *)
(*                                                                         *)
(* Numbers.  Floats are fixed point: min_value / max_value are in units of  *)
(* 0.0001, noise_factor and sample_rate_hz are in tenths (1 = 0.1), the    *)
(* clock counts ticks of 0.25 s, a Reading's value is in thousandths.      *)
(***************************************************************************)
EXTENDS Integers, Sequences, FiniteSets, TLC

\* ---------------------------------------------------------------- bounds
MaxThreads == 2      \* thread objects that exist at the same time
MaxTime == 2         \* last clock tick (ticks of 0.25 s)
DrawDen == 2         \* random.random() is drawn from {0, 1/DrawDen, ...}

\* ------------------------------------------------------ program constants
DEFAULT_PORT == 8080
JoinTimeoutSeconds == 5
MaxPort == 65535

DEFAULT_HOST == "192.168.1.100"

SensorType == {"temperature", "pressure", "force", "acceleration", "position", "light"}

\* SimulationConfig(): the field defaults.
DefaultConfig ==
    [sensor_type |-> "temperature", min_value |-> 0, max_value |-> 1000000,
     noise_factor |-> 1, sample_rate_hz |-> 10,
     host |-> DEFAULT_HOST, port |-> DEFAULT_PORT]

\* A valid configuration whose inter-sample sleep (1 / 0.1 Hz = 10 s) is
\* longer than the join timeout.
SlowConfig ==
    [DefaultConfig EXCEPT !.sensor_type = "pressure", !.min_value = 100000,
                          !.max_value = 100000, !.noise_factor = 0,
                          !.sample_rate_hz = 1]

\* Request bodies that break one invariant of the documented configuration
\* each.  The request model only types the fields, so all of them parse.
BadRangeConfig == [DefaultConfig EXCEPT !.min_value = 1000000, !.max_value = 0]
BadNoiseConfig == [DefaultConfig EXCEPT !.noise_factor = -1]
BadRateConfig == [DefaultConfig EXCEPT !.sample_rate_hz = 0]
BadPortConfig == [DefaultConfig EXCEPT !.port = 70000]

\* The request bodies POST /config is called with.
Configs ==
    {DefaultConfig, SlowConfig, BadRangeConfig, BadNoiseConfig, BadRateConfig,
     BadPortConfig}

\* What the client may send back: nothing more (peer closed, recv returns
\* b""), ASCII, a complete two-byte character, the first byte only of a
\* two-byte character, a byte that never occurs in UTF-8.
ClientBytes == {<<>>, <<65>>, <<195, 169>>, <<195>>, <<255>>}

\* random.random() draws, as numerators over DrawDen; 1.0 is never drawn.
Draws == 0..(DrawDen - 1)

VARIABLES
    simulation_running,   \* global simulation_running
    simulation_thread,    \* global simulation_thread: 0 (None) or a worker id
    stop_event,           \* global stop_event: TRUE when set
    active_config,        \* global active_config
    start_time,           \* global start_time: 0 (None) or a clock reading
    workers,              \* the thread objects, by id
    joining,              \* the event loop is inside stop_simulation's join
    now,                  \* time.time()
    response,             \* what the last completed control call returned
    stop_outcome          \* how the last join of the current Idle interval ended

vars ==
    <<simulation_running, simulation_thread, stop_event, active_config,
      start_time, workers, joining, now, response, stop_outcome>>

ctl == <<simulation_running, simulation_thread, stop_event, active_config,
         joining, stop_outcome>>

NoThread == 0
NoTime == 0

\* ------------------------------------------------------ pure functions

IsContinuation(x) == x \in 128..191

\* bytes.decode('utf-8') succeeds (strict error handler).
RECURSIVE Utf8Valid(_)
Utf8Valid(b) ==
    IF b = <<>> THEN TRUE
    ELSE LET h == Head(b)
             n == Len(b)
         IN  IF h < 128 THEN Utf8Valid(Tail(b))
             ELSE IF h \in 194..223
                  THEN /\ n >= 2
                       /\ IsContinuation(b[2])
                       /\ Utf8Valid(SubSeq(b, 3, n))
             ELSE IF h \in 224..239
                  THEN /\ n >= 3
                       /\ IsContinuation(b[2])
                       /\ IsContinuation(b[3])
                       /\ (h = 224 => b[2] >= 160)
                       /\ (h = 237 => b[2] <= 159)
                       /\ Utf8Valid(SubSeq(b, 4, n))
             ELSE IF h \in 240..244
                  THEN /\ n >= 4
                       /\ IsContinuation(b[2])
                       /\ IsContinuation(b[3])
                       /\ IsContinuation(b[4])
                       /\ (h = 240 => b[2] >= 144)
                       /\ (h = 244 => b[2] <= 143)
                       /\ Utf8Valid(SubSeq(b, 5, n))
             ELSE FALSE

\* round() of p / q to the nearest integer, ties to the even one (q > 0).
RoundHalfEven(p, q) ==
    LET f == IF p >= 0 THEN p \div q ELSE -((-p + q - 1) \div q)
        r == p - f * q
    IN  IF 2 * r < q THEN f
        ELSE IF 2 * r > q THEN f + 1
        ELSE IF f % 2 = 0 THEN f ELSE f + 1

get_unit_for_sensor(sensor_type) ==
    CASE sensor_type = "temperature" -> "C"
      [] sensor_type = "pressure" -> "kPa"
      [] sensor_type = "force" -> "N"
      [] sensor_type = "acceleration" -> "m/s2"
      [] sensor_type = "position" -> "mm"
      [] sensor_type = "light" -> "lux"
      [] OTHER -> ""

\* generate_sensor_data with the draw of the base value scaled by max_val
\* instead of the width of the range.
generate_sensor_data_base_by_max(sensor_type, min_val, max_val, noise, r1, r2, t) ==
    LET den == 10 * DrawDen
        base_value == den * min_val + 10 * r1 * max_val
        noise_value == (2 * r2 - DrawDen) * noise * (max_val - min_val)
        value == base_value + noise_value
    IN  [type |-> sensor_type,
         value |-> RoundHalfEven(value, 10 * den),
         timestamp |-> t,
         unit |-> get_unit_for_sensor(sensor_type)]

\* generate_sensor_data with the two random.random() results r1 / DrawDen
\* and r2 / DrawDen.  base_value, noise_value and their sum are kept exact,
\* in units of 0.0001 over the denominator 10 * DrawDen; "value" is the sum
\* rounded to three decimals, in thousandths.  (round() decides a tie by the
\* binary value of the float; here a tie goes to the even thousandth.)
generate_sensor_data(sensor_type, min_val, max_val, noise, r1, r2, t) ==
    LET den == 10 * DrawDen
        base_value == den * min_val + 10 * r1 * (max_val - min_val)
        noise_value == (2 * r2 - DrawDen) * noise * (max_val - min_val)
        value == base_value + noise_value
    IN  [type |-> sensor_type,
         value |-> RoundHalfEven(value, 10 * den),
         timestamp |-> t,
         unit |-> get_unit_for_sensor(sensor_type)]

\* round(uptime, 1): clock ticks of 0.25 s to tenths of a second.
RoundUptime(ticks) == RoundHalfEven(25 * ticks, 10)

\* time.sleep(1.0 / sample_rate_hz) lasts longer than `seconds`.
SleepExceeds(rate, seconds) == rate > 0 /\ 10 > seconds * rate

\* ------------------------------------------------------------ the state

\* threading.Thread(target=simulation_worker, args=(active_config, stop_event)):
\* the thread holds a reference to the configuration object that is active
\* when it is created.  `config` is what the worker reads through that
\* reference, `spawn_config` what the object held when the thread was made.
NewWorker(c) ==
    [pc |-> "init", config |-> c, spawn_config |-> c, sock |-> "none",
     client |-> "none", sent |-> FALSE, faulted |-> FALSE]

\* No thread object has this id.
NoWorker == [pc |-> "free", sock |-> "none", client |-> "none"]

\* A thread that has ended: its frame, with the sockets and the reference to
\* the configuration, is gone; `how` tells "done" from "bind_failed".
EndedWorker(how) == [pc |-> how, sock |-> "closed", client |-> "none"]

Slots == 1..MaxThreads

Ids == {w \in Slots : workers[w].pc # "free"}

Terminated(w) == workers[w].pc \in {"done", "bind_failed"}

Alive(w) == workers[w].pc \notin {"free", "done", "bind_failed"}

\* The thread w ends.  The object of an ended thread stays while
\* simulation_thread refers to it; otherwise nothing refers to it.
End(w, how) ==
    IF simulation_thread = w THEN EndedWorker(how) ELSE NoWorker

\* The thread objects once simulation_thread is about to be reassigned: the
\* one it referred to is dropped if that thread has ended.
Kept ==
    [w \in Slots |->
       IF w = simulation_thread /\ Terminated(w) THEN NoWorker ELSE workers[w]]

FreeSlots == {w \in Slots : Kept[w].pc = "free"}

NewId == CHOOSE w \in FreeSlots : \A v \in FreeSlots : w <= v

Init ==
    /\ simulation_running = FALSE
    /\ simulation_thread = NoThread
    /\ stop_event = FALSE
    /\ active_config = DefaultConfig
    /\ start_time = NoTime
    /\ workers = [w \in Slots |-> NoWorker]
    /\ joining = FALSE
    /\ now = 1
    /\ response = [msg |-> "none"]
    /\ stop_outcome = "none"

\* time.time() advances.
Tick ==
    /\ now < MaxTime
    /\ now' = now + 1
    /\ UNCHANGED <<ctl, start_time, workers, response>>

\* ------------------------------------------------------ control handlers

\* POST /start, simulation_running already True.
StartAlreadyRunning ==
    /\ ~joining
    /\ simulation_running
    /\ response' = [msg |-> "Simulation already running"]
    /\ UNCHANGED <<ctl, start_time, workers, now>>

\* POST /start otherwise: clear the event, set the flag, start a thread.
StartSpawn ==
    /\ ~joining
    /\ ~simulation_running
    /\ FreeSlots # {}
    /\ stop_event' = FALSE
    /\ simulation_running' = TRUE
    /\ workers' = [Kept EXCEPT ![NewId] = NewWorker(active_config)]
    /\ simulation_thread' = NewId
    /\ response' = [msg |-> "Simulation started", config |-> active_config]
    /\ stop_outcome' = "none"
    /\ UNCHANGED <<active_config, joining, start_time, now>>

\* The same handler without its first test.
start_simulation_unguarded ==
    /\ ~joining
    /\ FreeSlots # {}
    /\ stop_event' = FALSE
    /\ simulation_running' = TRUE
    /\ workers' = [Kept EXCEPT ![NewId] = NewWorker(active_config)]
    /\ simulation_thread' = NewId
    /\ response' = [msg |-> "Simulation started", config |-> active_config]
    /\ stop_outcome' = "none"
    /\ UNCHANGED <<active_config, joining, start_time, now>>

start_simulation == StartAlreadyRunning \/ StartSpawn

\* POST /stop that sets the event before it looks at simulation_running.
StopNotRunningSetsEvent ==
    /\ ~joining
    /\ ~simulation_running
    /\ stop_event' = TRUE
    /\ response' = [msg |-> "No simulation running"]
    /\ UNCHANGED <<simulation_running, simulation_thread, active_config,
                   joining, stop_outcome, start_time, workers, now>>

\* POST /stop, nothing running.
StopNotRunning ==
    /\ ~joining
    /\ ~simulation_running
    /\ response' = [msg |-> "No simulation running"]
    /\ UNCHANGED <<ctl, start_time, workers, now>>

\* POST /stop otherwise, up to the join: stop_event.set(), then the event
\* loop waits in simulation_thread.join(timeout=5.0).
StopSignal ==
    /\ ~joining
    /\ simulation_running
    /\ stop_event' = TRUE
    /\ joining' = TRUE
    /\ UNCHANGED <<simulation_running, simulation_thread, active_config,
                   stop_outcome, start_time, workers, now, response>>

\* The worker can stay where it is for longer than the join waits: in a
\* time.sleep(1 / sample_rate_hz) of more than 5 s.  Its other waits are
\* short: accept and the sleep after an error 1 s, recv 0.1 s, and sendall
\* either finds the buffers of a new connection empty or has the 0.1 s
\* timeout of line 115.
CanOutlastJoin(w) ==
    /\ workers[w].pc = "sleep"
    /\ SleepExceeds(workers[w].config.sample_rate_hz, JoinTimeoutSeconds)

\* join() returns because the thread has ended.
JoinReturns ==
    /\ joining
    /\ simulation_thread # NoThread
    /\ Terminated(simulation_thread)
    /\ joining' = FALSE
    /\ simulation_running' = FALSE
    /\ stop_outcome' = "joined"
    /\ response' = [msg |-> "Simulation stopped"]
    /\ UNCHANGED <<simulation_thread, stop_event, active_config, start_time,
                   workers, now>>

\* A join that gives up without returning to Idle.
JoinTimesOutStaysRunning ==
    /\ joining
    /\ simulation_thread # NoThread
    /\ Alive(simulation_thread)
    /\ CanOutlastJoin(simulation_thread)
    /\ joining' = FALSE
    /\ stop_outcome' = "timed_out"
    /\ response' = [msg |-> "Simulation stopped"]
    /\ UNCHANGED <<simulation_running, simulation_thread, stop_event,
                   active_config, start_time, workers, now>>

\* join() returns because 5 s have passed.
JoinTimesOut ==
    /\ joining
    /\ simulation_thread # NoThread
    /\ Alive(simulation_thread)
    /\ CanOutlastJoin(simulation_thread)
    /\ joining' = FALSE
    /\ simulation_running' = FALSE
    /\ stop_outcome' = "timed_out"
    /\ response' = [msg |-> "Simulation stopped"]
    /\ UNCHANGED <<simulation_thread, stop_event, active_config, start_time,
                   workers, now>>

stop_simulation == StopNotRunning \/ StopSignal \/ JoinReturns \/ JoinTimesOut

\* GET /status.
get_status ==
    /\ ~joining
    /\ response' =
         IF ~simulation_running
         THEN [msg |-> "status", running |-> FALSE]
         ELSE LET uptime == IF start_time # NoTime THEN now - start_time ELSE 0
              IN  [msg |-> "status", running |-> simulation_running,
                   sensor_type |-> active_config.sensor_type,
                   sample_rate_hz |-> active_config.sample_rate_hz,
                   uptime_seconds |-> RoundUptime(uptime)]
    /\ UNCHANGED <<ctl, start_time, workers, now>>

\* GET /config.
get_config ==
    /\ ~joining
    /\ response' = [msg |-> "config", config |-> active_config]
    /\ UNCHANGED <<ctl, start_time, workers, now>>

\* POST /config that assigns without looking at simulation_running.
update_config_unlocked(config) ==
    /\ ~joining
    /\ active_config' = config
    /\ response' = [msg |-> "Configuration updated", config |-> config]
    /\ UNCHANGED <<simulation_running, simulation_thread, stop_event, joining,
                   stop_outcome, start_time, workers, now>>

\* POST /config that writes the fields of the existing object instead of
\* binding the name to the new one: every thread started with that object
\* reads the new values.
update_config_in_place(config) ==
    /\ ~joining
    /\ IF simulation_running
       THEN /\ response' = [msg |-> "ConfigLocked", status_code |-> 400]
            /\ UNCHANGED <<active_config, workers>>
       ELSE /\ active_config' = config
            /\ workers' =
                 [w \in Slots |->
                    IF Alive(w) THEN [workers[w] EXCEPT !.config = config]
                    ELSE workers[w]]
            /\ response' = [msg |-> "Configuration updated", config |-> config]
    /\ UNCHANGED <<simulation_running, simulation_thread, stop_event, joining,
                   stop_outcome, start_time, now>>

\* POST /config that copies the range, noise, rate and address of the request
\* into the active configuration and keeps its sensor type.
update_config_merged(config) ==
    /\ ~joining
    /\ IF simulation_running
       THEN /\ response' = [msg |-> "ConfigLocked", status_code |-> 400]
            /\ UNCHANGED active_config
       ELSE /\ active_config' =
                 [config EXCEPT !.sensor_type = active_config.sensor_type]
            /\ response' = [msg |-> "Configuration updated",
                            config |-> active_config']
    /\ UNCHANGED <<simulation_running, simulation_thread, stop_event, joining,
                   stop_outcome, start_time, workers, now>>

\* POST /config: HTTP 400 while running, else active_config = config.  The
\* assignment binds the global name to the request's object; the object a
\* thread was started with is not written.
update_config(config) ==
    /\ ~joining
    /\ IF simulation_running
       THEN /\ response' = [msg |-> "ConfigLocked", status_code |-> 400]
            /\ UNCHANGED active_config
       ELSE /\ active_config' = config
            /\ response' = [msg |-> "Configuration updated", config |-> config]
    /\ UNCHANGED <<simulation_running, simulation_thread, stop_event, joining,
                   stop_outcome, start_time, workers, now>>

\* GET /generate-sample.
generate_sample ==
    /\ ~joining
    /\ \E r1 \in Draws, r2 \in Draws :
         response' =
           [msg |-> "sample",
            data |-> generate_sensor_data(active_config.sensor_type,
                                          active_config.min_value,
                                          active_config.max_value,
                                          active_config.noise_factor,
                                          r1, r2, now)]
    /\ UNCHANGED <<ctl, start_time, workers, now>>

\* ------------------------------------------------------------ the worker

\* Another thread of this process listens on the same address.
PortInUse(w) ==
    \E v \in Ids \ {w} :
        /\ workers[v].sock = "listening"
        /\ workers[v].config.host = workers[w].config.host
        /\ workers[v].config.port = workers[w].config.port

\* Line 80: the first statement of the thread.
WorkerInit(w) ==
    /\ workers[w].pc = "init"
    /\ start_time' = now
    /\ workers' = [workers EXCEPT ![w].pc = "bind"]
    /\ UNCHANGED <<ctl, now, response>>

\* Lines 85-89, bind and listen succeed.
WorkerBindOk(w) ==
    /\ workers[w].pc = "bind"
    /\ workers[w].config.port \in 0..MaxPort
    /\ ~PortInUse(w)
    /\ workers' = [workers EXCEPT ![w].pc = "accept_check", ![w].sock = "listening"]
    /\ UNCHANGED <<ctl, start_time, now, response>>

\* A failed bind that also resets the running flag.
WorkerBindFailsClearsRunning(w) ==
    /\ workers[w].pc = "bind"
    /\ workers' = [workers EXCEPT ![w] = End(w, "bind_failed")]
    /\ simulation_running' = FALSE
    /\ UNCHANGED <<simulation_thread, stop_event, active_config, joining,
                   stop_outcome, start_time, now, response>>

\* Lines 85-89, bind raises: the port is out of range (OverflowError), held
\* by a listener of this process, or refused by the host (held by another
\* process, not an address of this host, no permission).  Lines 135-140
\* print the error, close the socket and end the thread.
WorkerBindFails(w) ==
    /\ workers[w].pc = "bind"
    /\ workers' = [workers EXCEPT ![w] = End(w, "bind_failed")]
    /\ UNCHANGED <<ctl, start_time, now, response>>

\* Line 93 and, when the event is set, lines 137-140.
WorkerAcceptCheck(w) ==
    /\ workers[w].pc = "accept_check"
    /\ workers' =
         IF stop_event
         THEN [workers EXCEPT ![w] = End(w, "done")]
         ELSE [workers EXCEPT ![w].pc = "accept"]
    /\ UNCHANGED <<ctl, start_time, now, response>>

\* Line 96 raises socket.timeout after 1 s; lines 128-130.
WorkerAcceptTimeout(w) ==
    /\ workers[w].pc = "accept"
    /\ workers' = [workers EXCEPT ![w].pc = "accept_check"]
    /\ UNCHANGED <<ctl, start_time, now, response>>

\* Line 96 returns a connection: a new socket, blocking.
WorkerAcceptClient(w) ==
    /\ workers[w].pc = "accept"
    /\ workers' = [workers EXCEPT ![w].pc = "stream_check",
                                  ![w].client = "blocking", ![w].sent = FALSE]
    /\ UNCHANGED <<ctl, start_time, now, response>>

\* The inner loop without its test of the event.
WorkerStreamCheckIgnoresStop(w) ==
    /\ workers[w].pc = "stream_check"
    /\ workers' = [workers EXCEPT ![w].pc = "send"]
    /\ UNCHANGED <<ctl, start_time, now, response>>

\* Line 100 and, when the event is set, line 126 and back to line 93.
WorkerStreamCheck(w) ==
    /\ workers[w].pc = "stream_check"
    /\ workers' =
         IF stop_event
         THEN [workers EXCEPT ![w].pc = "accept_check", ![w].client = "none",
                              ![w].sent = FALSE]
         ELSE [workers EXCEPT ![w].pc = "send"]
    /\ UNCHANGED <<ctl, start_time, now, response>>

\* Lines 102-111: one reading generated, serialised and written.
WorkerSendOk(w) ==
    /\ workers[w].pc = "send"
    /\ workers' = [workers EXCEPT ![w].pc = "recv", ![w].sent = TRUE]
    /\ UNCHANGED <<ctl, start_time, now, response>>

\* A write failure that ends the thread.
WorkerSendFailsAndExits(w) ==
    /\ workers[w].pc = "send"
    /\ workers' = [workers EXCEPT ![w] = End(w, "done")]
    /\ UNCHANGED <<ctl, start_time, now, response>>

\* Line 111 raises (broken pipe, connection reset): line 126 closes the
\* client socket, lines 131-133 print the error and sleep 1 s.
WorkerSendFails(w) ==
    /\ workers[w].pc = "send"
    /\ workers' = [workers EXCEPT ![w].pc = "err_sleep", ![w].client = "none",
                                  ![w].sent = FALSE, ![w].faulted = TRUE]
    /\ UNCHANGED <<ctl, start_time, now, response>>

\* Line 111 raises socket.timeout (the socket has the 0.1 s timeout of line
\* 115 and the client does not read): line 126, then lines 128-130.
WorkerSendTimeout(w) ==
    /\ workers[w].pc = "send"
    /\ workers[w].client = "timed"
    /\ workers' = [workers EXCEPT ![w].pc = "accept_check", ![w].client = "none",
                                  ![w].sent = FALSE, ![w].faulted = TRUE]
    /\ UNCHANGED <<ctl, start_time, now, response>>

\* Lines 115-116, 119-120: nothing arrives within 0.1 s.
WorkerRecvTimeout(w) ==
    /\ workers[w].pc = "recv"
    /\ workers' = [workers EXCEPT ![w].pc = "sleep", ![w].client = "timed"]
    /\ UNCHANGED <<ctl, start_time, now, response>>

\* Lines 115-118: recv returns b.  Non-empty bytes are decoded for the
\* print; a UnicodeDecodeError is no socket.timeout, so it leaves the inner
\* loop through line 126 and lands in lines 131-133.
WorkerRecvBytes(w, b) ==
    /\ workers[w].pc = "recv"
    /\ workers' =
         IF b = <<>> \/ Utf8Valid(b)
         THEN [workers EXCEPT ![w].pc = "sleep", ![w].client = "timed"]
         ELSE [workers EXCEPT ![w].pc = "err_sleep", ![w].client = "none",
                              ![w].sent = FALSE]
    /\ UNCHANGED <<ctl, start_time, now, response>>

\* A failed read that leaves the client socket open.
WorkerRecvFailsKeepsClient(w) ==
    /\ workers[w].pc = "recv"
    /\ workers' = [workers EXCEPT ![w].pc = "err_sleep", ![w].sent = FALSE,
                                  ![w].faulted = TRUE]
    /\ UNCHANGED <<ctl, start_time, now, response>>

\* Line 116 raises (connection reset): line 126, lines 131-133.
WorkerRecvFails(w) ==
    /\ workers[w].pc = "recv"
    /\ workers' = [workers EXCEPT ![w].pc = "err_sleep", ![w].client = "none",
                                  ![w].sent = FALSE, ![w].faulted = TRUE]
    /\ UNCHANGED <<ctl, start_time, now, response>>

\* Line 123.  1.0 / 0 raises ZeroDivisionError and a negative sleep raises
\* ValueError: line 126, lines 131-133.
WorkerSleep(w) ==
    /\ workers[w].pc = "sleep"
    /\ workers' =
         IF workers[w].config.sample_rate_hz > 0
         THEN [workers EXCEPT ![w].pc = "stream_check"]
         ELSE [workers EXCEPT ![w].pc = "err_sleep", ![w].client = "none",
                              ![w].sent = FALSE]
    /\ UNCHANGED <<ctl, start_time, now, response>>

\* Line 133 is over: back to line 93.
WorkerErrSleep(w) ==
    /\ workers[w].pc = "err_sleep"
    /\ workers' = [workers EXCEPT ![w].pc = "accept_check"]
    /\ UNCHANGED <<ctl, start_time, now, response>>

simulation_worker(w) ==
    \/ WorkerInit(w)
    \/ WorkerBindOk(w)
    \/ WorkerBindFails(w)
    \/ WorkerAcceptCheck(w)
    \/ WorkerAcceptTimeout(w)
    \/ WorkerAcceptClient(w)
    \/ WorkerStreamCheck(w)
    \/ WorkerSendOk(w)
    \/ WorkerSendFails(w)
    \/ WorkerSendTimeout(w)
    \/ WorkerRecvTimeout(w)
    \/ (\E b \in ClientBytes : WorkerRecvBytes(w, b))
    \/ WorkerRecvFails(w)
    \/ WorkerSleep(w)
    \/ WorkerErrSleep(w)

\* ------------------------------------------------------ specifications

Next ==
    \/ Tick
    \/ start_simulation
    \/ stop_simulation
    \/ get_status
    \/ get_config
    \/ (\E c \in Configs : update_config(c))
    \/ generate_sample
    \/ (\E w \in Slots : WorkerInit(w))
    \/ (\E w \in Slots : WorkerBindOk(w))
    \/ (\E w \in Slots : WorkerBindFails(w))
    \/ (\E w \in Slots : WorkerAcceptCheck(w))
    \/ (\E w \in Slots : WorkerAcceptTimeout(w))
    \/ (\E w \in Slots : WorkerAcceptClient(w))
    \/ (\E w \in Slots : WorkerStreamCheck(w))
    \/ (\E w \in Slots : WorkerSendOk(w))
    \/ (\E w \in Slots : WorkerSendFails(w))
    \/ (\E w \in Slots : WorkerSendTimeout(w))
    \/ (\E w \in Slots : WorkerRecvTimeout(w))
    \/ (\E w \in Slots : \E b \in ClientBytes : WorkerRecvBytes(w, b))
    \/ (\E w \in Slots : WorkerRecvFails(w))
    \/ (\E w \in Slots : WorkerSleep(w))
    \/ (\E w \in Slots : WorkerErrSleep(w))

Spec == Init /\ [][Next]_vars

\* The system without the clock and without the handlers that only answer
\* (status, config, sample): these write `now` and `response` alone, which no
\* step of a thread reads except to stamp start_time, so the threads and the
\* control state behave as under Next.
WorkerNext ==
    \/ start_simulation
    \/ stop_simulation
    \/ (\E c \in Configs : update_config(c))
    \/ (\E w \in Slots : WorkerInit(w))
    \/ (\E w \in Slots : WorkerBindOk(w))
    \/ (\E w \in Slots : WorkerBindFails(w))
    \/ (\E w \in Slots : WorkerAcceptCheck(w))
    \/ (\E w \in Slots : WorkerAcceptTimeout(w))
    \/ (\E w \in Slots : WorkerAcceptClient(w))
    \/ (\E w \in Slots : WorkerStreamCheck(w))
    \/ (\E w \in Slots : WorkerSendOk(w))
    \/ (\E w \in Slots : WorkerSendFails(w))
    \/ (\E w \in Slots : WorkerSendTimeout(w))
    \/ (\E w \in Slots : WorkerRecvTimeout(w))
    \/ (\E w \in Slots : \E b \in ClientBytes : WorkerRecvBytes(w, b))
    \/ (\E w \in Slots : WorkerRecvFails(w))
    \/ (\E w \in Slots : WorkerSleep(w))
    \/ (\E w \in Slots : WorkerErrSleep(w))

\* Every thread that can take a step is scheduled again, and each of its
\* waits ends: accept, recv, sendall and the sleeps by their timeouts.
FairSpec ==
    Init /\ [][WorkerNext]_vars /\ \A w \in Slots : WF_vars(simulation_worker(w))

\* The sample generator alone.  The active configuration is any valid one
\* of a grid whose ranges are narrower or wider than a thousandth, with and
\* without noise; the only steps are the clock and GET /generate-sample.
SampleConfigs ==
    {c \in {[DefaultConfig EXCEPT !.min_value = a, !.max_value = b,
                                  !.noise_factor = n] :
              a \in {0, 4, 15}, b \in {4, 6, 15, 10000}, n \in {0, 1, 5}} :
        c.min_value <= c.max_value}
      \cup {DefaultConfig, SlowConfig}

SampleInit ==
    /\ simulation_running = FALSE
    /\ simulation_thread = NoThread
    /\ stop_event = FALSE
    /\ active_config \in SampleConfigs
    /\ start_time = NoTime
    /\ workers = [w \in Slots |-> NoWorker]
    /\ joining = FALSE
    /\ now = 1
    /\ response = [msg |-> "none"]
    /\ stop_outcome = "none"

SampleNext == Tick \/ generate_sample

SampleSpec == SampleInit /\ [][SampleNext]_vars

\* ---------------------------------------------------------------- claims

\* The invariants the documentation states for a configuration.  Nothing
\* in the program evaluates them; the claims about them do.
ValidConfig(c) ==
    /\ c.min_value <= c.max_value
    /\ c.noise_factor >= 0
    /\ c.sample_rate_hz > 0
    /\ c.port \in 1..MaxPort

\* The last control call that completed is a stop.
StopReturned == response.msg \in {"Simulation stopped", "No simulation running"}

\* The last control call that completed is a status() answered while running.
RunningStatus(r) == r.msg = "status" /\ r.running

\* C1: a start() whose bind fails leaves RunState Idle: in no reachable state
\* is the system Running for a run whose worker failed to bind.
C1_BindFailureLeavesIdle ==
    (simulation_running /\ simulation_thread # NoThread)
        => workers[simulation_thread].pc # "bind_failed"

\* C2: once a stop() has returned because the worker ended (not because the
\* wait timed out), no thread holds a listening socket or a client
\* connection, whatever start/stop calls came before.
C2_TimelyStopReleasesPort ==
    stop_outcome = "joined"
        => \A w \in Slots : workers[w].sock # "listening" /\ workers[w].client = "none"

\* C3: start() while Running answers "already running" and changes neither
\* the threads, RunState, the cancellation signal nor the configuration;
\* and of any two start() calls in a row exactly the one that finds the
\* system Idle creates a thread.
C3_StartWhileRunningIsNoOp ==
    /\ [][(simulation_running /\ start_simulation)
            => /\ response'.msg = "Simulation already running"
               /\ UNCHANGED <<workers, simulation_thread, simulation_running,
                              stop_event, active_config>>]_vars
    /\ [][start_simulation
            => /\ simulation_running'
               /\ (workers' # workers) <=> ~simulation_running]_vars

C3_Witness ==
    /\ response.msg = "Simulation already running"
    /\ simulation_running
    /\ Cardinality(Ids) = 1

\* C4: updateConfig (while Idle) with a configuration that violates an
\* invariant fails with InvalidConfig and leaves the active configuration
\* and RunState unchanged.
C4_InvalidConfigRejected ==
    [][\A c \in Configs :
         (~ValidConfig(c) /\ ~simulation_running /\ update_config(c))
            => /\ response'.msg = "InvalidConfig"
               /\ UNCHANGED <<active_config, simulation_running>>]_vars

\* C5: updateConfig while Running fails with ConfigLocked and leaves the
\* active configuration as it was.
C5_UpdateWhileRunningLocked ==
    [][\A c \in Configs :
         (simulation_running /\ update_config(c))
            => /\ response'.msg = "ConfigLocked"
               /\ active_config' = active_config]_vars

C5_Witness ==
    /\ response.msg = "ConfigLocked"
    /\ simulation_running
    /\ active_config = SlowConfig

\* C6: after any stop() has returned, timed out or not, RunState is Idle and
\* the event loop is free; an updateConfig that follows is not answered
\* ConfigLocked and a start() that follows is not answered "already running".
C6_StopLeavesControllable ==
    /\ [](StopReturned => ~simulation_running /\ ~joining)
    /\ [][\A c \in Configs :
            (StopReturned /\ update_config(c)) => response'.msg # "ConfigLocked"]_vars
    /\ [][(StopReturned /\ start_simulation)
            => response'.msg # "Simulation already running"]_vars

C6_Witness ==
    /\ stop_outcome = "timed_out"
    /\ response.msg = "Configuration updated"
    /\ ~simulation_running
    /\ \E w \in Slots : Alive(w) /\ workers[w].sock = "listening"

\* C7: of two status() calls answered while Running with no other control
\* call between them, the second reports an uptime that is not smaller.
C7_UptimeMonotonic ==
    [][(RunningStatus(response) /\ RunningStatus(response'))
         => response'.uptime_seconds >= response.uptime_seconds]_vars

\* C8: whatever bytes the acknowledgement read returns, the worker goes on
\* to its sleep with the same client connection, and neither RunState nor
\* the configuration changes.
C8_ReceivedBytesHaveNoEffect ==
    [][\A w \in Slots : \A b \in ClientBytes \ {<<>>} :
         WorkerRecvBytes(w, b)
            => /\ workers'[w].pc = "sleep"
               /\ workers'[w].client # "none"
               /\ UNCHANGED <<simulation_running, active_config>>]_vars

\* C9: a write failure or a disconnect ends the streaming phase only: the
\* thread lives on with its listener open and without client, on its way
\* back to accept; and a client accepted after such a fault is sent a
\* reading, unless cancellation is raised or that client fails first.
C9_ClientFaultEndsStreamingOnly ==
    /\ [][\A w \in Slots :
            (WorkerSendFails(w) \/ WorkerSendTimeout(w) \/ WorkerRecvFails(w))
               => /\ workers'[w].pc \in {"err_sleep", "accept_check"}
                  /\ workers'[w].sock = "listening"
                  /\ workers'[w].client = "none"]_vars
    /\ \A w \in Slots :
         (/\ workers[w].pc = "stream_check"
          /\ workers[w].faulted
          /\ ~workers[w].sent)
            ~> (\/ stop_event
                \/ workers[w].client = "none"
                \/ workers[w].sent)

C9_Witness ==
    \E w \in Slots :
        /\ workers[w].pc = "recv"
        /\ workers[w].faulted
        /\ workers[w].sent
        /\ ~stop_event

\* C10: what a live worker reads as its configuration is, for as long as it
\* lives, the configuration that was active when start() created it.
C10_SnapshotIsolation ==
    \A w \in Slots : Alive(w) => workers[w].config = workers[w].spawn_config

C10_Witness ==
    \E w \in Slots :
        /\ Alive(w)
        /\ workers[w].config = SlowConfig
        /\ active_config = DefaultConfig
        /\ response.msg = "Configuration updated"


\* C11: updateConfig while Idle with a valid configuration is answered
\* "Configuration updated" and makes the request the active configuration,
\* every field of it; getConfig returns the active configuration; and while
\* Idle the event loop is free to run the call.
C11_UpdateWhileIdleVisible ==
    /\ [][\A c \in Configs :
            (ValidConfig(c) /\ ~simulation_running /\ update_config(c))
               => /\ response'.msg = "Configuration updated"
                  /\ response'.config = c
                  /\ active_config' = c]_vars
    /\ [][get_config => response'.config = active_config]_vars
    /\ [](~simulation_running => ~joining)

C11_Witness ==
    /\ response.msg = "config"
    /\ response.config = SlowConfig
    /\ ~simulation_running

\* C12: stop() while Idle answers "No simulation running" and changes
\* neither the cancellation signal, RunState, the configuration, the thread
\* handle, the start timestamp nor any thread, and does not wait.
C12_StopWhileIdleIsNoOp ==
    [][(~simulation_running /\ stop_simulation)
         => /\ response'.msg = "No simulation running"
            /\ UNCHANGED <<stop_event, joining, simulation_running,
                           active_config, simulation_thread, start_time,
                           workers, stop_outcome>>]_vars

C12_Witness ==
    /\ response.msg = "No simulation running"
    /\ simulation_thread # NoThread
    /\ stop_event
    /\ ~simulation_running


\* The ends of [min - noise * (max - min), max + noise * (max - min)] for a
\* configuration, in units of 0.00001.
NoiseLow(c) == 10 * c.min_value - c.noise_factor * (c.max_value - c.min_value)

NoiseHigh(c) == 10 * c.max_value + c.noise_factor * (c.max_value - c.min_value)

\* The value v (thousandths) lies in the interval of c widened by slack
\* (units of 0.00001) at both ends.
WithinNoise(c, v, slack) ==
    /\ NoiseLow(c) - slack <= 100 * v
    /\ 100 * v <= NoiseHigh(c) + slack

\* C13, as claimed: the value of every generated Reading lies within
\* [min - noise*(max-min), max + noise*(max-min)], and equals min when
\* min = max.
C13_ValueWithinNoiseInterval ==
    (response.msg = "sample" /\ ValidConfig(active_config))
        => /\ WithinNoise(active_config, response.data.value, 0)
           /\ (active_config.min_value = active_config.max_value
                 => 100 * response.data.value = 10 * active_config.min_value)

\* C13, amended: the value lies within 0.0005 of that interval, and within
\* the interval itself when both its ends are multiples of 0.001.
C13_ValueWithinRoundedNoiseInterval ==
    (response.msg = "sample" /\ ValidConfig(active_config))
        => /\ WithinNoise(active_config, response.data.value, 50)
           /\ (NoiseLow(active_config) % 100 = 0 /\ NoiseHigh(active_config) % 100 = 0
                 => WithinNoise(active_config, response.data.value, 0))

C13_Witness ==
    /\ response.msg = "sample"
    /\ ValidConfig(active_config)
    /\ active_config.noise_factor > 0
    /\ 100 * response.data.value < 10 * active_config.min_value


\* The thread in slot w is past its bind: waiting for a client or serving one.
Serving(w) ==
    workers[w].pc \in {"accept_check", "accept", "stream_check", "send", "recv",
                       "sleep", "err_sleep"}

\* C14: while the event stays set, a thread that waits for a client or
\* serves one ends after finitely many of its steps; at the step that ends
\* it no client socket is open and its listener is closed.
C14_CancellationObserved ==
    /\ \A w \in Slots : (stop_event /\ Serving(w)) ~> (~stop_event \/ ~Alive(w))
    /\ [][\A w \in Slots :
            (Alive(w) /\ ~Alive(w)')
               => /\ workers[w].client = "none"
                  /\ workers'[w].sock # "listening"
                  /\ workers'[w].client = "none"]_vars

C14_Witness ==
    /\ stop_event
    /\ simulation_thread # NoThread
    /\ workers[simulation_thread].pc = "done"
    /\ workers[simulation_thread].sock = "closed"
    /\ response.msg = "Simulation stopped"


\* C15, as claimed: every configuration a thread was started with satisfies
\* min <= max, noise >= 0, rate > 0 and port in 1..65535.
C15_SnapshotsAreValid ==
    \A w \in Slots : Alive(w) => ValidConfig(workers[w].spawn_config)

\* C16, as claimed: while POST /stop waits for the thread, GET /status and
\* GET /config can run to completion.
C16_ControlCallsRunDuringWait ==
    joining => (ENABLED get_status /\ ENABLED get_config)

\* C17: simulation_running changes only by POST /start (to TRUE) and by
\* POST /stop (to FALSE); the other handlers and every step of a thread leave
\* it unchanged, and GET /generate-sample leaves the configuration, the
\* event, the thread handle and the threads unchanged as well.
C17_RunStateChangesOnlyByStartStop ==
    /\ [][simulation_running' # simulation_running
            => \/ start_simulation /\ ~simulation_running /\ simulation_running'
               \/ stop_simulation /\ simulation_running /\ ~simulation_running']_vars
    /\ [][(\/ get_status
           \/ get_config
           \/ \E c \in Configs : update_config(c)
           \/ generate_sample
           \/ \E w \in Slots : simulation_worker(w))
            => UNCHANGED simulation_running]_vars
    /\ [][generate_sample
            => UNCHANGED <<simulation_running, active_config, stop_event,
                           simulation_thread, workers, start_time, joining>>]_vars

C17_Witness ==
    /\ response.msg = "sample"
    /\ simulation_running
    /\ simulation_thread # NoThread
    /\ Terminated(simulation_thread)

\* C18: a thread has no client socket open while it is before its bind,
\* tests the outer loop, waits in accept or sleeps after an error, so accept
\* is only ever called with the previous client socket closed.
C18_OneClientAtATime ==
    /\ [](\A w \in Slots :
            workers[w].pc \in {"init", "bind", "accept_check", "accept", "err_sleep"}
               => workers[w].client = "none")
    /\ [][\A w \in Slots :
            WorkerAcceptClient(w) => workers[w].client = "none"]_vars

C18_Witness ==
    \E w \in Slots :
        /\ workers[w].pc = "stream_check"
        /\ workers[w].client = "blocking"
        /\ workers[w].faulted

\* C19, as claimed: at most one thread is alive.
C19_AtMostOneWorkerAlive ==
    Cardinality({w \in Slots : Alive(w)}) <= 1

\* The run of the thread in slot w has been cancelled by POST /stop: the
\* handle no longer refers to it, or the stop is waiting for it or has
\* given up waiting and no new run has begun.
Cancelled(w) ==
    /\ Alive(w)
    /\ (w # simulation_thread \/ joining \/ ~simulation_running)

\* C20, as claimed: a thread whose run was cancelled sends no reading after
\* its next test of the event.
C20_CancellationNeverRevoked ==
    [][\A w \in Slots :
         (Cancelled(w) /\ WorkerStreamCheck(w)) => workers'[w].pc # "send"]_vars

====
